---- MODULE Spec2Model ----
(***************************************************************************)
(* Model of the asynchronous document-lifecycle task pipeline and of the   *)
(* chat-turn orchestrator of ycla_ai_chat (src/app/tasks.py,               *)
(* src/app/database.py, src/app/utils.py, src/app/endpoints.py).           *)
(*                                                                         *)
(* Seven specifications share the variables: Spec is the task pipeline,    *)
(* ChatSpec the chat endpoint serving concurrent turns over the Session    *)
(* Store, UploadSpec the validation of upload requests in front of the     *)
(* pipeline, PromptSpec the saving of the admin prompt by concurrent       *)
(* requests, DocumentSpec the deletion of one document, BatchSpec one call *)
(* of create_batch, RegisterSpec the registration of companies by          *)
(* concurrent requests.  Each leaves the variables of the others unchanged.*)
(*                                                                         *)
(* The collaborators the code calls (the search index, the relational      *)
(* store, the webhook receiver, the text extractor and the embedding       *)
(* service) are modelled by the outcomes a call can have: it returns, or   *)
(* it raises.  Which outcome happens is chosen nondeterministically.       *)
(* Every step of a job that talks to a collaborator is one action, so that *)
(* the jobs of the worker pool interleave at exactly those points.         *)
(*                                                                         *)
(* As written, database.py binds search_client to the asynchronous client  *)
(* and calls create_batch with a keyword it does not take, so on every run *)
(* these calls raise and are swallowed by the enclosing `except Exception`.*)
(* The raising outcome is one of the outcomes modelled for each call; the  *)
(* returning outcomes are kept next to it, so the model covers the code as *)
(* written and the code with those two calls working.                      *)
(***************************************************************************)
EXTENDS Integers, Sequences, FiniteSets, TLC

\* ---------------------------------------------------------------- bounds
MaxTenants == 1
MaxTasks == 2
MaxFiles == 2
MaxChunks == 2
MaxPromptRows == 2
\* chat requests served, sessions issued earlier, turns already in a history
MaxTurns == 2
MaxSessions == 1
MaxPastTurns == 5
\* files of one upload request
MaxRequestFiles == 2
\* concurrent requests to save a prompt; requests to delete a document and the
\* tenants whose documents are indexed when they arrive
MaxSaves == 3
MaxDeletes == 2
MaxDocTenants == 2
\* characters of the text extracted from a file, and the characters of a chunk
MaxTextLen == 5
ChunkSize == 2
\* concurrent requests to register a company, and the letters of a company name
MaxRegistrations == 2
MaxNameLen == 2

\* ------------------------------------------------- program constants
\* @celery_tasks.task(max_retries=3, default_retry_delay=60)
max_retries == 3
\* await redis_client.ltrim(key, -10, -1): the entries a history list keeps
HistoryLimit == 10
\* status codes of the responses
HTTP_200_OK == 200
HTTP_201_CREATED == 201
HTTP_202_ACCEPTED == 202
HTTP_400_BAD_REQUEST == 400
HTTP_404_NOT_FOUND == 404
HTTP_409_CONFLICT == 409
HTTP_500_INTERNAL_SERVER_ERROR == 500
HTTP_503_SERVICE_UNAVAILABLE == 503
\* settings.supported_extensions, settings.max_file_size (100 MB)
supported_extensions == {".pdf", ".docx"}
max_file_size == 1024 * 1024 * 100

Tenants == 1..MaxTenants
TaskIds == 1..MaxTasks
\* the caller-supplied callback url: empty (or None), or a url
Urls == {"", "https://cb"}
\* a file of an ingest batch: the extractor can read it, or it is corrupt
FileKinds == {"valid", "corrupt"}
Batches == UNION {[1..n -> FileKinds] : n \in 1..MaxFiles}

VARIABLES
    nextCompanyId,  \* ids handed out by register_company so far (ids are fresh)
    companies,      \* Company rows: the set of their ids
    adminPrompts,   \* AdminPrompt rows: [id, company_id]
    fileMetadata,   \* FileMetadata rows: [file_name, company_id, document_id]
    index,          \* chunks in the search index: [id, company_id, document_id]
    tasks,          \* the Celery tasks, by task id
    sessions,       \* Session Store: the session records that are alive (session ids)
    history,        \* Session Store: the list kept under each history key
    turns,          \* the chat requests being served, by request id
    lastUpload,     \* the last request to POST /documents/upload and its response
    saves,          \* the requests to POST the admin prompt being served, by request id
    deletes,        \* the requests to DELETE one document and their responses
    batchCall,      \* one call of create_batch: its arguments and what it returned
    registrations,  \* the requests to register a company being served, by request id
    companyNames    \* Company rows with their names: [id, name], kept where names are read

vars == <<nextCompanyId, companies, adminPrompts, fileMetadata, index, tasks,
          sessions, history, turns, lastUpload, saves, deletes, batchCall,
          registrations, companyNames>>

\* the state of the chat-turn orchestrator and of the HTTP boundary
chatVars == <<sessions, history, turns>>

stores == <<nextCompanyId, companies, adminPrompts, fileMetadata, index>>

\* the requests of the prompt endpoint and of the document endpoint
adminVars == <<saves, deletes, batchCall, registrations, companyNames>>

\* ------------------------------------------------------------ results
\* an entry of result["errors"]: f"{prefix}: {msg}" (prefix "" for a bare message);
\* names: the file names the text contains (none of the messages the tasks build
\* contains one: the exceptions raised for a file never reach the tasks)
Err(prefix, msg) == [prefix |-> prefix, msg |-> msg, names |-> {}]

\* Python's None, and a value that is not None
None == <<>>
Some(x) == <<x>>

\* the `result` dict each task starts from
UploadResult(company_id) ==
    [success |-> FALSE, company_id |-> company_id, errors |-> <<>>,
     details |-> [documents_uploaded |-> FALSE]]

DeleteDocumentsResult(company_id) ==
    [success |-> FALSE, company_id |-> company_id, errors |-> <<>>,
     details |-> [documents_deleted |-> FALSE]]

DeleteCompanyResult(company_id) ==
    [success |-> FALSE, company_id |-> company_id, errors |-> <<>>,
     details |-> [documents_deleted |-> FALSE, prompts_deleted |-> FALSE,
                  company_deleted |-> FALSE]]

InitialResult(kind, company_id) ==
    CASE kind = "upload" -> UploadResult(company_id)
      [] kind = "delete_documents" -> DeleteDocumentsResult(company_id)
      [] OTHER -> DeleteCompanyResult(company_id)

NoResult == [success |-> FALSE, company_id |-> 0, errors |-> <<>>, details |-> <<>>]

\* a task id nobody has submitted yet
NoTask ==
    [kind |-> "none", company_id |-> 0, url |-> "", documents |-> <<>>,
     pc |-> "none", attempts |-> 0, i |-> 0, docs |-> {},
     ret |-> "none", abort |-> "none", indexed |-> {},
     sql_error |-> FALSE, company_found |-> "none", rowcount |-> 0,
     result |-> NoResult,
     webhook |-> "none", webhook_calls |-> 0, payload |-> NoResult,
     state |-> "PENDING", retval |-> None, raised |-> FALSE]

\* ------------------------------------------------------- chat data
TurnIds == 1..MaxTurns

\* session ids: those issued earlier, and the fresh id a request may mint
IssuedSessions == 1..MaxSessions
NewSessionId(r) == MaxSessions + r
SessionIds == IssuedSessions \cup {NewSessionId(r) : r \in TurnIds}

\* the signed session token a client presents (x-jwt-token): none, one whose
\* signature does not verify, one past its expiry, or a well-formed one
TokenKinds == {"invalid", "expired", "valid"}
NoToken == [kind |-> "missing", session_id |-> 0]
Token(kind, session_id) == [kind |-> kind, session_id |-> session_id]
Tokens == {NoToken} \cup {Token(k, s) : k \in TokenKinds, s \in IssuedSessions}

\* f"history:{company.id}:{session_id}"
HistoryKey(company_id, session_id) == <<"history", company_id, session_id>>
\* the Session Store is shared: it also holds the lists of a company that no
\* request served here belongs to
OtherTenant == MaxTenants + 1
HistoryKeys == {HistoryKey(c, s) : c \in Tenants \cup {OtherTenant}, s \in SessionIds}

\* the content of a message; a field a kind of content does not have is empty
Content(kind, n, provider, context, prompt) ==
    [kind |-> kind, n |-> n, provider |-> provider, context |-> context,
     prompt |-> prompt]

\* req.question of the n-th turn, and the answer a provider gives to it
Question(n) == Content("question", n, "", {}, <<>>)
Answer(n, provider) == Content("answer", n, provider, {}, <<>>)

\* {"role": ..., "content": ...}
Message(role, content) == [role |-> role, content |-> content]

\* json.dumps / json.loads of a message
json_dumps(m) == <<"json", m>>
json_loads(s) == s[2]

\* the two entries a turn persists
TurnEntries(n, answer) ==
    <<json_dumps(Message("user", Question(n))),
      json_dumps(Message("assistant", answer))>>

\* the last n elements of a list: LTRIM key -n -1
LastN(n, s) == IF Len(s) <= n THEN s ELSE SubSeq(s, Len(s) - n + 1, Len(s))

\* a trim that keeps one entry less than the limit
ltrim_odd(s) == LastN(HistoryLimit - 1, s)

\* a trim that keeps the two newest entries only
ltrim_last_two(s) == LastN(2, s)

\* await redis_client.ltrim(key, -10, -1)
ltrim(s) == LastN(HistoryLimit, s)

\* the list a key holds after k earlier turns, each persisted and trimmed
RECURSIVE PastHistory(_)
PastHistory(k) ==
    IF k = 0 THEN <<>>
    ELSE ltrim(PastHistory(k - 1) \o TurnEntries(k, Answer(k, "primary")))

\* the numbers of earlier turns a history starts from: none, a list that is
\* full, and a list one turn short of full
PastTurnCounts == {0, MaxPastTurns - 1, MaxPastTurns}

\* the question number of request r: later than every turn already stored
QuestionOf(r) == MaxPastTurns + r

NoResponse == [status |-> 0, answer |-> None, token |-> NoToken]

\* a request id nobody has used yet
NoTurn ==
    [pc |-> "none", company_id |-> 0, token |-> NoToken, session_id |-> 0,
     jwt_token |-> NoToken, messages |-> <<>>, history_read |-> "none",
     retrieval |-> "none", context |-> {}, admin_prompt |-> <<>>,
     final_messages |-> <<>>, primary |-> "none", primary_calls |-> 0, e |-> "none",
     secondary |-> "none", secondary_calls |-> 0, secondary_messages |-> <<>>,
     answer |-> None, rpush |-> "none", ltrim |-> "none", response |-> NoResponse]

\* no upload request yet
NoUpload == [files |-> <<>>, status |-> 0, detail |-> "", task |-> 0]

\* ------------------------------------------- prompt and document requests
SaveIds == 1..MaxSaves
DeleteIds == 1..MaxDeletes
DocTenants == 1..MaxDocTenants

\* no request to save a prompt yet: old_prompt is the row the select returned,
\* new_prompt the id of the row the request inserts
NoSave ==
    [pc |-> "none", company_id |-> 0, old_prompt |-> None, new_prompt |-> 0,
     response |-> None]

\* no request to delete a document yet: result is what delete_document_by_id
\* returned, status the status code of the response
NoDelete ==
    [pc |-> "none", company_id |-> 0, document_id |-> None, result |-> None,
     status |-> 0]

\* create_batch has not been called
NoBatchCall == [pc |-> "none"]

RegistrationIds == 1..MaxRegistrations

\* no request to register a company yet: name is req.name, status the status
\* code of the response
NoRegistration == [pc |-> "none", name |-> <<>>, status |-> 0]

\* no call of create_batch and no registration is being watched
Quiet ==
    /\ batchCall = NoBatchCall
    /\ registrations = [r \in RegistrationIds |-> NoRegistration]
    /\ companyNames = {}

\* nothing has reached the chat endpoint, the upload endpoint, the prompt
\* endpoint or the document endpoint
NoRequests ==
    /\ sessions = {}
    /\ history = [k \in HistoryKeys |-> <<>>]
    /\ turns = [r \in TurnIds |-> NoTurn]
    /\ lastUpload = NoUpload
    /\ saves = [s \in SaveIds |-> NoSave]
    /\ deletes = [d \in DeleteIds |-> NoDelete]

Idle == NoRequests /\ Quiet

Init ==
    /\ nextCompanyId = 1
    /\ companies = {}
    /\ adminPrompts = {}
    /\ fileMetadata = {}
    /\ index = {}
    /\ tasks = [t \in TaskIds |-> NoTask]
    /\ Idle

\* ------------------------------------------------- relational store
\* register_company / create_company: a new Company row with a fresh id (the
\* names registered here differ ignoring case, so the 409 branch is not taken)
register_company ==
    /\ nextCompanyId <= MaxTenants
    /\ companies' = companies \cup {nextCompanyId}
    /\ nextCompanyId' = nextCompanyId + 1
    /\ UNCHANGED <<adminPrompts, fileMetadata, index, tasks>>

PromptsOf(company_id) == {p \in adminPrompts : p.company_id = company_id}

Min(S) == CHOOSE x \in S : \A y \in S : x <= y

\* save_admin_prompt as one step: delete the first old row if there is one,
\* insert the new row (row ids are capped by MaxPromptRows).  PromptSpec takes
\* the function commit by commit.
save_admin_prompt(company_id) ==
    /\ company_id \in companies
    /\ LET old == PromptsOf(company_id)
           kept == IF old = {} THEN adminPrompts
                   ELSE adminPrompts \ {CHOOSE p \in old : \A q \in old : p.id <= q.id}
           free == (1..MaxPromptRows) \ {p.id : p \in kept}
       IN /\ free # {}
          /\ adminPrompts' = kept \cup {[id |-> Min(free), company_id |-> company_id]}
    /\ UNCHANGED <<nextCompanyId, companies, fileMetadata, index, tasks>>

\* ------------------------------------------------------- submission
\* <task>.delay(...): a new task id, PENDING in the result backend.  The endpoints
\* upload / delete_all_documents / delete_company authenticate the company first.
CanEnqueue(t, company_id) ==
    /\ tasks[t].kind = "none"
    /\ \A u \in TaskIds : u < t => tasks[u].kind # "none"
    /\ company_id \in companies

Queued(kind, company_id, url, documents) ==
    [NoTask EXCEPT !.kind = kind, !.company_id = company_id, !.url = url,
                   !.documents = documents, !.pc = "queued",
                   !.result = InitialResult(kind, company_id)]

\* upload_documents_task.delay(documents=file_data, company_id=company.id, url=...)
upload(t, company_id, url, documents) ==
    /\ CanEnqueue(t, company_id)
    /\ tasks' = [tasks EXCEPT ![t] = Queued("upload", company_id, url, documents)]
    /\ UNCHANGED stores

\* delete_documents_task.delay(company_id=company.id, url=...)
delete_all_documents(t, company_id, url) ==
    /\ CanEnqueue(t, company_id)
    /\ tasks' = [tasks EXCEPT ![t] = Queued("delete_documents", company_id, url, <<>>)]
    /\ UNCHANGED stores

\* delete_company_task.delay(company_id=company.id, url=...)
delete_company(t, company_id, url) ==
    /\ CanEnqueue(t, company_id)
    /\ tasks' = [tasks EXCEPT ![t] = Queued("delete_company", company_id, url, <<>>)]
    /\ UNCHANGED stores

\* a worker of the pool takes the task from the broker and calls the function
FirstPc(kind) == IF kind = "upload" THEN "upload_file" ELSE "delete_search"

WorkerStart(t) ==
    /\ tasks[t].pc = "queued"
    /\ tasks' = [tasks EXCEPT ![t].pc = FirstPc(tasks[t].kind),
                              ![t].attempts = @ + 1,
                              ![t].i = IF tasks[t].kind = "upload" THEN 1 ELSE 0]
    /\ UNCHANGED stores

\* --------------------------------------------------- the task bodies
\* upload_documents_task, the try block: `outcome` is how the call of
\* upload_documents ended ("returned", or the exception it raised)
upload_documents_task_try(res, outcome) ==
    CASE outcome = "returned" ->
            [res EXCEPT !.details.documents_uploaded = TRUE, !.success = TRUE]
      [] outcome = "SQLAlchemyError" ->
            [res EXCEPT !.errors = Append(@, Err("Database operation", outcome))]
      [] OTHER ->
            [res EXCEPT !.errors = Append(@, Err("Critical", outcome))]

\* delete_documents_task_try without the two assignments after the call of
\* delete_documents: the job ends with success = false, documents_deleted = false
delete_documents_task_try_no_flags(res, outcome) ==
    CASE outcome = "returned" -> [res EXCEPT !.details.documents_deleted = FALSE]
      [] OTHER ->
            [res EXCEPT !.errors = Append(@, Err("Critical", outcome))]

\* delete_documents_task, the try block
delete_documents_task_try(res, outcome) ==
    CASE outcome = "returned" ->
            [res EXCEPT !.details.documents_deleted = TRUE, !.success = TRUE]
      [] OTHER ->
            [res EXCEPT !.errors = Append(@, Err("Critical", outcome))]

\* delete_company_task, step 1: the inner try around delete_documents
delete_company_documents_step(res, outcome) ==
    IF outcome = "returned"
    THEN [res EXCEPT !.details.documents_deleted = TRUE]
    ELSE [res EXCEPT !.errors = Append(@, Err("Documents deletion", outcome))]

\* delete_company_task, steps 2 and 3: one Session, one transaction.
\* rowcount: rows matched by delete(AdminPrompt); found: session.get(Company) is
\* not None; outcome: "ok", or the statement at which SQLAlchemyError is raised.
\* The inner handler appends "Database operation" and re-raises; the outer
\* `except Exception` appends "Critical" and swallows.
delete_company_db(res, rowcount, found, outcome) ==
    LET failed(r) == [r EXCEPT !.errors =
                        @ \o <<Err("Database operation", "SQLAlchemyError"),
                               Err("Critical", "SQLAlchemyError")>>]
        r1 == [res EXCEPT !.details.prompts_deleted = (rowcount > 0)]
    IN  CASE outcome = "exec_raises" -> failed(res)
          [] outcome = "get_raises" -> failed(r1)
          [] ~found -> [r1 EXCEPT !.errors = Append(@, Err("", "Company not found"))]
          [] outcome = "commit_raises" -> failed(r1)
          [] OTHER -> [r1 EXCEPT !.details.company_deleted = TRUE, !.success = TRUE]

\* the transaction of delete_company_task is committed
CompanyCommitted(found, outcome) == found /\ outcome = "ok"

\* send_webhook: "returned" (the response, whatever its status code) or "raised"
\* (ValueError for a missing url or payload, HTTPException for a RequestException)
send_webhook(url, payload, outcome) ==
    IF url = "" \/ DOMAIN payload = {} THEN "raised"
    ELSE IF outcome = "RequestException" THEN "raised"
    ELSE "returned"

WebhookOutcomes == {"2xx", "non2xx", "RequestException"}

\* the job calls send_webhook
Notifies(url) == url # ""

\* task_finally with the notification at the end of the try body instead of in
\* finally: a job whose steps failed leaves without notifying
task_finally_in_try(res, url, outcome) ==
    IF ~Notifies(url) \/ ~res.success
    THEN [result |-> res, calls |-> 0, payload |-> NoResult, webhook |-> "none",
          raised |-> FALSE]
    ELSE IF send_webhook(url, res, outcome) = "raised"
    THEN [result |-> [res EXCEPT !.errors =
                        Append(@, Err("Webhook", "Failed to send webhook"))],
          calls |-> 1, payload |-> res, webhook |-> "raised", raised |-> FALSE]
    ELSE [result |-> res, calls |-> 1, payload |-> res, webhook |-> "returned",
          raised |-> FALSE]

\* task_finally with a handler that marks the job failed when the webhook fails
task_finally_fails_job(res, url, outcome) ==
    IF ~Notifies(url)
    THEN [result |-> res, calls |-> 0, payload |-> NoResult, webhook |-> "none",
          raised |-> FALSE]
    ELSE IF send_webhook(url, res, outcome) = "raised"
    THEN [result |-> [res EXCEPT !.success = FALSE, !.errors =
                        Append(@, Err("Webhook", "Failed to send webhook"))],
          calls |-> 1, payload |-> res, webhook |-> "raised", raised |-> FALSE]
    ELSE [result |-> res, calls |-> 1, payload |-> res, webhook |-> "returned",
          raised |-> FALSE]

\* task_finally without the test of the url: send_webhook is called with whatever
\* url the job was given
task_finally_always_notifies(res, url, outcome) ==
    IF send_webhook(url, res, outcome) = "raised"
    THEN [result |-> [res EXCEPT !.errors =
                        Append(@, Err("Webhook", "Failed to send webhook"))],
          calls |-> 1, payload |-> res, webhook |-> "raised", raised |-> FALSE]
    ELSE [result |-> res, calls |-> 1, payload |-> res, webhook |-> "returned",
          raised |-> FALSE]

\* the finally block of the three tasks: notify if there is a url, swallow
\* whatever send_webhook raises and record it in errors
task_finally(res, url, outcome) ==
    IF ~Notifies(url)
    THEN [result |-> res, calls |-> 0, payload |-> NoResult, webhook |-> "none",
          raised |-> FALSE]
    ELSE IF send_webhook(url, res, outcome) = "raised"
    THEN [result |-> [res EXCEPT !.errors =
                        Append(@, Err("Webhook", "Failed to send webhook"))],
          calls |-> 1, payload |-> res, webhook |-> "raised", raised |-> FALSE]
    ELSE [result |-> res, calls |-> 1, payload |-> res, webhook |-> "returned",
          raised |-> FALSE]

\* what Celery stores when the task function is left: none of the three functions
\* has a return statement, so the stored result is None
TaskReturnValue(res) == None

TaskState(raised) == IF raised THEN "FAILURE" ELSE "SUCCESS"

\* ------------------------------------------------ upload_documents
\* encode_document_key: urlsafe base64 of the raw key (injective)
encode_document_key(key) == <<"b64", key>>

\* the chunk create_batch builds for chunk k of file i of task t:
\* id f"{company_id}-{uuid4()}", re-keyed by upload_documents
Chunk(company_id, doc_id, k) ==
    [id |-> encode_document_key(<<company_id, doc_id, k>>),
     company_id |-> company_id, document_id |-> doc_id]

\* doc_id = uuid(): fresh for every file of every task
DocId(t, i) == <<t, i>>

\* results and results[0] and results[0].succeeded, for the per-document
\* results of an index call on `sent` of which `accepted` succeeded, `first`
\* being the document the first result is about
FirstSucceeded(sent, accepted, first) == sent # {} /\ first \in accepted

\* upload_documents has returned `ret` ({"indexed": ret}) to upload_documents_task;
\* it catches every exception itself, so the call always returns
UploadReturns(tk, ret, abort) ==
    [tk EXCEPT !.ret = ret, !.abort = abort, !.pc = "finally", !.i = 0,
               !.docs = {},
               !.result = upload_documents_task_try(tk.result, "returned")]

\* one file of the batch: create_batch (extract, chunk, embed; a chunk whose
\* embedding fails is dropped), then search_client.upload_documents
UploadFile(t) ==
    LET tk == tasks[t]
        doc_id == DocId(t, tk.i)
    IN  /\ tk.pc = "upload_file"
        /\ \/ /\ tk.documents[tk.i] = "corrupt"      \* create_batch raises
              /\ tasks' = [tasks EXCEPT ![t] = UploadReturns(tk, "False", "create_batch")]
              /\ UNCHANGED index
           \/ /\ tk.documents[tk.i] = "valid"
              /\ \E n \in 0..MaxChunks : LET batch == 1..n IN
                   \/ /\ tasks' = [tasks EXCEPT ![t] =        \* the index call raises
                                     UploadReturns(tk, "False", "index")]
                      /\ UNCHANGED index
                   \/ \E accepted \in SUBSET batch :
                        /\ index' = index \cup
                              {Chunk(tk.company_id, doc_id, k) : k \in accepted}
                        /\ tasks' = [tasks EXCEPT ![t] =
                              IF FirstSucceeded(batch, accepted, Min(batch))
                              THEN [tk EXCEPT !.pc = "upload_meta",
                                              !.docs = {Chunk(tk.company_id, doc_id, k) :
                                                           k \in batch}]
                              ELSE UploadReturns(tk, "False", "index")]  \* bare raise
        /\ UNCHANGED <<nextCompanyId, companies, adminPrompts, fileMetadata>>

\* session.add(FileMetadata(...)); session.commit(), then the next file
UploadMeta(t) ==
    LET tk == tasks[t]
        row == [file_name |-> <<"file", t, tk.i>>, company_id |-> tk.company_id,
                document_id |-> DocId(t, tk.i)]
    IN  /\ tk.pc = "upload_meta"
        /\ \/ /\ fileMetadata' = fileMetadata \cup {row}
              /\ tasks' = [tasks EXCEPT ![t] =
                    LET done == [tk EXCEPT !.indexed = @ \cup {tk.i}, !.docs = {}]
                    IN  IF tk.i = Len(tk.documents)
                        THEN UploadReturns(done, "True", "none")
                        ELSE [done EXCEPT !.i = @ + 1, !.pc = "upload_file"]]
           \/ /\ UNCHANGED fileMetadata                        \* the commit raises
              /\ tasks' = [tasks EXCEPT ![t] = UploadReturns(tk, "False", "commit")]
        /\ UNCHANGED <<nextCompanyId, companies, adminPrompts, index>>

\* ------------------------------------------------ delete_documents
ChunksOf(company_id) == {c \in index : c.company_id = company_id}

\* delete_documents has returned `ret` ({"deleted": ret}) to its caller; it
\* catches every exception itself, so the call always returns
DeleteReturns(tk, ret) ==
    IF tk.kind = "delete_documents"
    THEN [tk EXCEPT !.ret = ret, !.pc = "finally", !.docs = {},
                    !.result = delete_documents_task_try(tk.result, "returned")]
    ELSE [tk EXCEPT !.ret = ret, !.pc = "company_db", !.docs = {},
                    !.result = delete_company_documents_step(tk.result, "returned")]

\* chunks = search_client.search(filter=company_id eq ...); docs = their ids
DeleteSearch(t) ==
    LET tk == tasks[t]
    IN  /\ tk.pc = "delete_search"
        /\ \/ tasks' = [tasks EXCEPT ![t] =
                  [tk EXCEPT !.docs = ChunksOf(tk.company_id), !.pc = "delete_index"]]
           \/ tasks' = [tasks EXCEPT ![t] = DeleteReturns(tk, "False")]  \* search raises
        /\ UNCHANGED stores

\* results = search_client.delete_documents(documents=docs): the index removes
\* `removed` of the documents and reports one result per document
DeleteIndex(t) ==
    LET tk == tasks[t]
    IN  /\ tk.pc = "delete_index"
        /\ \/ /\ tasks' = [tasks EXCEPT ![t] = DeleteReturns(tk, "False")]  \* raises
              /\ UNCHANGED index
           \/ \E removed \in SUBSET tk.docs :
                /\ index' = index \ removed
                /\ \/ /\ tk.docs = {}
                      /\ tasks' = [tasks EXCEPT ![t] =
                            DeleteReturns(tk, "True")]
                   \/ \E first \in tk.docs :
                        tasks' = [tasks EXCEPT ![t] =
                            IF FirstSucceeded(tk.docs, removed, first)
                            THEN [tk EXCEPT !.pc = "delete_meta"]
                            ELSE DeleteReturns(tk, "True")]
        /\ UNCHANGED <<nextCompanyId, companies, adminPrompts, fileMetadata>>

\* delete(FileMetadata).where(company_id == ...); session.commit()
DeleteMeta(t) ==
    LET tk == tasks[t]
    IN  /\ tk.pc = "delete_meta"
        /\ \/ /\ fileMetadata' = {r \in fileMetadata : r.company_id # tk.company_id}
              /\ tasks' = [tasks EXCEPT ![t] = DeleteReturns(tk, "True")]
           \/ /\ UNCHANGED fileMetadata                        \* the commit raises
              /\ tasks' = [tasks EXCEPT ![t] = DeleteReturns(tk, "False")]
        /\ UNCHANGED <<nextCompanyId, companies, adminPrompts, index>>

\* ---------------------------------------------- delete_company_task
DbOutcomes == {"ok", "exec_raises", "get_raises", "commit_raises"}

\* with Session(engine): delete the prompts, get the company, delete it, commit
CompanyDb(t) ==
    LET tk == tasks[t]
        rowcount == Cardinality(PromptsOf(tk.company_id))
        found == tk.company_id \in companies
    IN  /\ tk.pc = "company_db"
        /\ \E outcome \in DbOutcomes :
             /\ (outcome = "commit_raises") => found
             /\ tasks' = [tasks EXCEPT ![t] =
                   [tk EXCEPT !.result = delete_company_db(tk.result, rowcount, found, outcome),
                              !.rowcount = IF outcome = "exec_raises" THEN 0 ELSE rowcount,
                              !.company_found =
                                  IF outcome \in {"exec_raises", "get_raises"} THEN "none"
                                  ELSE IF found THEN "found" ELSE "absent",
                              !.sql_error = (outcome # "ok"),
                              !.pc = "finally"]]
             /\ IF CompanyCommitted(found, outcome)
                THEN /\ adminPrompts' = adminPrompts \ PromptsOf(tk.company_id)
                     /\ companies' = companies \ {tk.company_id}
                ELSE UNCHANGED <<adminPrompts, companies>>   \* nothing is committed
        /\ UNCHANGED <<nextCompanyId, fileMetadata, index>>

\* ------------------------------------------------- finally, and return
\* the finally block, after which the function is left and Celery stores the
\* task's state and return value in the result backend
Finally(t) ==
    LET tk == tasks[t]
    IN  /\ tk.pc = "finally"
        /\ \E outcome \in WebhookOutcomes :
             LET f == task_finally(tk.result, tk.url, outcome)
             IN  tasks' = [tasks EXCEPT ![t] =
                    [tk EXCEPT !.result = f.result, !.webhook = f.webhook,
                               !.webhook_calls = @ + f.calls, !.payload = f.payload,
                               !.raised = f.raised, !.pc = "done",
                               !.state = TaskState(f.raised),
                               !.retval = TaskReturnValue(f.result)]]
        /\ UNCHANGED stores

\* ------------------------------------------------------------ polling
\* get_upload_status / get_deleting_status / get_company_deleting_status:
\* TaskStatusResponse(status=task.status, result=task.result)
TaskStatusResponse(t) ==
    [status |-> tasks[t].state,
     result |-> IF tasks[t].state = "PENDING" THEN None ELSE tasks[t].retval]

\* ------------------------------------------------------ specification
\* the task pipeline; the chat endpoint and the upload validation are idle
Register == register_company /\ UNCHANGED <<chatVars, lastUpload, adminVars>>

EnqueueUpload ==
    /\ \E t \in TaskIds, c \in Tenants, u \in Urls, d \in Batches : upload(t, c, u, d)
    /\ UNCHANGED <<chatVars, lastUpload, adminVars>>

EnqueueDeleteDocuments ==
    /\ \E t \in TaskIds, c \in Tenants, u \in Urls : delete_all_documents(t, c, u)
    /\ UNCHANGED <<chatVars, lastUpload, adminVars>>

EnqueueDeleteCompany ==
    /\ \E t \in TaskIds, c \in Tenants, u \in Urls : delete_company(t, c, u)
    /\ UNCHANGED <<chatVars, lastUpload, adminVars>>

SavePrompt ==
    /\ \E c \in Tenants : save_admin_prompt(c)
    /\ UNCHANGED <<chatVars, lastUpload, adminVars>>

Start ==
    /\ \E t \in TaskIds : WorkerStart(t)
    /\ UNCHANGED <<chatVars, lastUpload, adminVars>>

StepUploadFile ==
    /\ \E t \in TaskIds : UploadFile(t)
    /\ UNCHANGED <<chatVars, lastUpload, adminVars>>

StepUploadMeta ==
    /\ \E t \in TaskIds : UploadMeta(t)
    /\ UNCHANGED <<chatVars, lastUpload, adminVars>>

StepDeleteSearch ==
    /\ \E t \in TaskIds : DeleteSearch(t)
    /\ UNCHANGED <<chatVars, lastUpload, adminVars>>

StepDeleteIndex ==
    /\ \E t \in TaskIds : DeleteIndex(t)
    /\ UNCHANGED <<chatVars, lastUpload, adminVars>>

StepDeleteMeta ==
    /\ \E t \in TaskIds : DeleteMeta(t)
    /\ UNCHANGED <<chatVars, lastUpload, adminVars>>

StepCompanyDb ==
    /\ \E t \in TaskIds : CompanyDb(t)
    /\ UNCHANGED <<chatVars, lastUpload, adminVars>>

StepFinally ==
    /\ \E t \in TaskIds : Finally(t)
    /\ UNCHANGED <<chatVars, lastUpload, adminVars>>

Next ==
    \/ Register
    \/ SavePrompt
    \/ EnqueueUpload
    \/ EnqueueDeleteDocuments
    \/ EnqueueDeleteCompany
    \/ Start
    \/ StepUploadFile
    \/ StepUploadMeta
    \/ StepDeleteSearch
    \/ StepDeleteIndex
    \/ StepDeleteMeta
    \/ StepCompanyDb
    \/ StepFinally

Spec == Init /\ [][Next]_vars

\* ============================================== chat-turn orchestrator
\* The coroutine `chat` is left at every await; each action below is the code
\* between two awaits, so that the turns served concurrently interleave there.

\* get_session_from_jwt (app.dependencies): the session a request runs under and
\* the token it is answered with.  A token that is well formed and whose session
\* record is alive is kept; for any other the request gets a fresh session id
\* and a newly signed token.
get_session_from_jwt(r, token) ==
    IF token.kind = "valid" /\ token.session_id \in sessions
    THEN [session_id |-> token.session_id, jwt_token |-> token, minted |-> FALSE]
    ELSE [session_id |-> NewSessionId(r),
          jwt_token |-> Token("valid", NewSessionId(r)), minted |-> TRUE]

\* get_admin_prompt: the prompt of the first AdminPrompt row of the company, or ""
get_admin_prompt(company_id) ==
    LET rows == PromptsOf(company_id)
    IN  IF rows = {} THEN <<>> ELSE <<Min({p.id : p \in rows})>>

\* a system message that is the fixed instruction alone
SystemMessage_fixed(admin_prompt) ==
    Message("system", Content("system", 0, "", {}, <<>>))

\* {"role": "system", "content": f"<instruction> {admin_prompt}"}
SystemMessage(admin_prompt) ==
    Message("system", Content("system", 0, "", {}, admin_prompt))

\* {"role": "user", "content": f"Контекст:\n{context}\n\nВопрос:\n{req.question}"}
UserMessage(context, n) == Message("user", Content("user", n, "", context, <<>>))

\* the exceptions a provider call is modelled to raise, and the classes of the
\* `except (...)` tuple around the primary call they are instances of
ProviderErrors ==
    {"RateLimitError", "InternalServerError", "APIError", "APITimeoutError",
     "LengthFinishReasonError", "ContentFilterFinishReasonError", "ValueError"}

\* openai: APITimeoutError, RateLimitError and InternalServerError derive from
\* APIError
IsInstance(e, class) ==
    \/ e = class
    \/ class = "APIError" /\ e \in {"APITimeoutError", "RateLimitError", "InternalServerError"}

FallbackClasses ==
    {"APIError", "RateLimitError", "InternalServerError",
     "LengthFinishReasonError", "ContentFilterFinishReasonError"}

\* falls_back for a handler that catches nothing, and for one that catches all
falls_back_never(e) == FALSE

falls_back_always(e) == TRUE

\* the first except clause of the provider step catches e
falls_back(e) == \E class \in FallbackClasses : IsInstance(e, class)

\* an exhausted provider step answered 200 with an empty body
Unavailable_as_ok == [status |-> HTTP_200_OK, answer |-> None, token |-> NoToken]

\* raise HTTPException(status_code=503, ...): no answer, no token header
Unavailable == [status |-> HTTP_503_SERVICE_UNAVAILABLE, answer |-> None, token |-> NoToken]

\* an exception nobody catches leaves the endpoint: the framework answers 500
InternalError == [status |-> HTTP_500_INTERNAL_SERVER_ERROR, answer |-> None, token |-> NoToken]

\* JSONResponse that sends back the token the request came with
JSONResponse_stale_token(answer, jwt_token, token) ==
    [status |-> HTTP_200_OK, answer |-> answer, token |-> token]

\* the response after the write of the history is the provider failure
JSONResponse_as_unavailable(answer, jwt_token, token) ==
    [status |-> HTTP_503_SERVICE_UNAVAILABLE, answer |-> None, token |-> NoToken]

\* JSONResponse that leaves the answer out
JSONResponse_no_answer(answer, jwt_token, token) ==
    [status |-> HTTP_200_OK, answer |-> None, token |-> jwt_token]

\* JSONResponse(content={"answer": answer}, headers={"x-jwt-token": jwt_token})
JSONResponse(answer, jwt_token, token) ==
    [status |-> HTTP_200_OK, answer |-> answer, token |-> jwt_token]

\* POST /chat arrives: the dependencies are resolved (the API key names a company,
\* the session is resolved) and the coroutine starts
chat(r, company_id, token) ==
    /\ turns[r].pc = "none"
    /\ \A q \in TurnIds : q < r => turns[q].pc # "none"
    /\ company_id \in companies
    /\ LET s == get_session_from_jwt(r, token)
       IN  /\ turns' = [turns EXCEPT ![r] =
                 [NoTurn EXCEPT !.pc = "load_history", !.company_id = company_id,
                                !.token = token, !.session_id = s.session_id,
                                !.jwt_token = s.jwt_token]]
           /\ sessions' = IF s.minted THEN sessions \cup {s.session_id} ELSE sessions
    /\ UNCHANGED history

\* a turn that keys its list by the session id alone, under one tenant for all
KeyOf_session_only(tn) == HistoryKey(OtherTenant, tn.session_id)

\* f"history:{company.id}:{session_id}" of a turn
KeyOf(tn) == HistoryKey(tn.company_id, tn.session_id)

\* the history step without its handler's default: the list is used as stored
loaded_messages_no_default(stored, outcome) ==
    [i \in DOMAIN stored |-> json_loads(stored[i])]

\* try: messages = await get_redis_history(...) except Exception: messages = []
\* (get_redis_history: json.loads of every item of the list)
loaded_messages(stored, outcome) ==
    IF outcome = "ok" THEN [i \in DOMAIN stored |-> json_loads(stored[i])]
    ELSE <<>>

\* messages = await get_redis_history(...): lrange(key, 0, -1) and json.loads of
\* each item; whatever it raises leaves messages = []
LoadHistory(r) ==
    LET tn == turns[r]
        stored == history[KeyOf(tn)]
    IN  /\ tn.pc = "load_history"
        /\ \/ turns' = [turns EXCEPT ![r] =
                 [tn EXCEPT !.messages = loaded_messages(stored, "ok"),
                            !.history_read = "ok", !.pc = "compose"]]
           \/ turns' = [turns EXCEPT ![r] =
                 [tn EXCEPT !.messages = loaded_messages(stored, "RedisError"),
                            !.history_read = "failed", !.pc = "compose"]]
        /\ UNCHANGED <<sessions, history>>

RetrievalOutcomes == {"ok", "embedding_raises", "search_raises"}

\* the retrieval step without its handler's default
retrieved_context_no_default(chunks, found) == {c.id : c \in chunks}

\* try: embed, search, context = "\n".join(contents) except Exception: context = ""
retrieved_context(chunks, found) ==
    IF found = "ok" THEN {c.id : c \in chunks} ELSE {}

\* from the embedding of the question to final_messages: synchronous code.
\* The embedding and the search are inside a try whose handler sets context = "";
\* get_admin_prompt is called outside any try.
Compose(r) ==
    LET tn == turns[r]
    IN  /\ tn.pc = "compose"
        /\ \E found \in RetrievalOutcomes, prompt_read \in {"ok", "raises"} :
             LET context == retrieved_context(ChunksOf(tn.company_id), found)
                 admin_prompt == get_admin_prompt(tn.company_id)
                 messages == Append(tn.messages, UserMessage(context, QuestionOf(r)))
             IN  turns' = [turns EXCEPT ![r] =
                    IF prompt_read = "raises"
                    THEN [tn EXCEPT !.retrieval = IF found = "ok" THEN "ok" ELSE "failed",
                                    !.context = context, !.admin_prompt = <<>>,
                                    !.messages = <<>>,
                                    !.response = InternalError, !.pc = "done"]
                    ELSE [tn EXCEPT !.retrieval = IF found = "ok" THEN "ok" ELSE "failed",
                                    !.context = context,
                                    !.admin_prompt = admin_prompt,
                                    !.messages = messages,
                                    !.final_messages =
                                        <<SystemMessage(admin_prompt)>> \o messages,
                                    !.pc = "primary"]]
        /\ UNCHANGED <<sessions, history>>

\* response = await azure_client.chat.completions.create(messages=final_messages);
\* `e` is the exception the handler is running for
Primary(r) ==
    LET tn == turns[r]
    IN  /\ tn.pc = "primary"
        /\ \/ turns' = [turns EXCEPT ![r] =
                 [tn EXCEPT !.primary = "ok", !.primary_calls = @ + 1,
                            !.answer = Some(Answer(QuestionOf(r), "primary")),
                            !.pc = "rpush"]]
           \/ \E e \in ProviderErrors :
                turns' = [turns EXCEPT ![r] =
                   IF falls_back(e)
                   THEN [tn EXCEPT !.primary = "raised", !.primary_calls = @ + 1,
                                   !.e = e, !.pc = "secondary"]
                   ELSE [tn EXCEPT !.primary = "raised", !.primary_calls = @ + 1,
                                   !.e = e, !.response = Unavailable, !.pc = "done"]]
        /\ UNCHANGED <<sessions, history>>

\* response = await deepseek_client.chat.completions.create(messages=final_messages),
\* inside the handler of the first except clause; `e` is unbound when it is left
Secondary(r) ==
    LET tn == turns[r]
    IN  /\ tn.pc = "secondary"
        /\ \/ turns' = [turns EXCEPT ![r] =
                 [tn EXCEPT !.secondary = "ok", !.secondary_calls = @ + 1,
                            !.e = "none",
                            !.secondary_messages = tn.final_messages,
                            !.answer = Some(Answer(QuestionOf(r), "secondary")),
                            !.pc = "rpush"]]
           \/ turns' = [turns EXCEPT ![r] =
                 [tn EXCEPT !.secondary = "raised", !.secondary_calls = @ + 1,
                            !.e = "none",
                            !.secondary_messages = tn.final_messages,
                            !.response = Unavailable, !.pc = "done"]]
        /\ UNCHANGED <<sessions, history>>

\* set_redis_history, first await: rpush(key, user entry, assistant entry); if it
\* raises, chat logs the error and answers
Rpush(r) ==
    LET tn == turns[r]
        key == KeyOf(tn)
    IN  /\ tn.pc = "rpush"
        /\ \/ /\ history' = [history EXCEPT ![key] =
                    @ \o TurnEntries(QuestionOf(r), tn.answer[1])]
              /\ turns' = [turns EXCEPT ![r] = [tn EXCEPT !.rpush = "ok", !.pc = "ltrim"]]
           \/ /\ UNCHANGED history
              /\ turns' = [turns EXCEPT ![r] =
                    [tn EXCEPT !.rpush = "failed", !.pc = "done",
                               !.response = JSONResponse(tn.answer, tn.jwt_token, tn.token)]]
        /\ UNCHANGED sessions

\* set_redis_history, second await: ltrim(key, -10, -1); then, whether it raised
\* or not, chat answers
Ltrim(r) ==
    LET tn == turns[r]
        key == KeyOf(tn)
    IN  /\ tn.pc = "ltrim"
        /\ \/ /\ history' = [history EXCEPT ![key] = ltrim(@)]
              /\ turns' = [turns EXCEPT ![r] =
                    [tn EXCEPT !.ltrim = "ok", !.pc = "done",
                               !.response = JSONResponse(tn.answer, tn.jwt_token, tn.token)]]
           \/ /\ UNCHANGED history
              /\ turns' = [turns EXCEPT ![r] =
                    [tn EXCEPT !.ltrim = "failed", !.pc = "done",
                               !.response = JSONResponse(tn.answer, tn.jwt_token, tn.token)]]
        /\ UNCHANGED sessions

\* the state the chat endpoint is started in: the companies are registered, a
\* company has a prompt or none, its document is indexed, the sessions issued
\* earlier are alive, and their history holds the turns served before
ChatInit ==
    /\ nextCompanyId = OtherTenant + 1
    /\ companies = Tenants \cup {OtherTenant}
    /\ \E with_prompt \in SUBSET Tenants :
          adminPrompts = {[id |-> c, company_id |-> c] : c \in with_prompt}
    /\ index = {Chunk(c, DocId(0, 1), 1) : c \in Tenants}
    /\ fileMetadata = {[file_name |-> <<"file", 0, 1>>, company_id |-> c,
                        document_id |-> DocId(0, 1)] : c \in Tenants}
    /\ tasks = [t \in TaskIds |-> NoTask]
    /\ sessions = IssuedSessions
    /\ \E past \in [Tenants \X IssuedSessions -> PastTurnCounts] :
          history = [k \in HistoryKeys |->
                        IF k[3] \notin IssuedSessions THEN <<>>
                        ELSE IF k[2] = OtherTenant THEN PastHistory(MaxPastTurns)
                        ELSE PastHistory(past[<<k[2], k[3]>>])]
    /\ turns = [r \in TurnIds |-> NoTurn]
    /\ lastUpload = NoUpload
    /\ saves = [s \in SaveIds |-> NoSave]
    /\ deletes = [d \in DeleteIds |-> NoDelete]
    /\ Quiet

ChatRequest ==
    /\ \E r \in TurnIds, c \in Tenants, token \in Tokens : chat(r, c, token)
    /\ UNCHANGED <<stores, tasks, lastUpload, adminVars>>

StepLoadHistory ==
    /\ \E r \in TurnIds : LoadHistory(r)
    /\ UNCHANGED <<stores, tasks, lastUpload, adminVars>>

StepCompose ==
    /\ \E r \in TurnIds : Compose(r)
    /\ UNCHANGED <<stores, tasks, lastUpload, adminVars>>

StepPrimary ==
    /\ \E r \in TurnIds : Primary(r)
    /\ UNCHANGED <<stores, tasks, lastUpload, adminVars>>

StepSecondary ==
    /\ \E r \in TurnIds : Secondary(r)
    /\ UNCHANGED <<stores, tasks, lastUpload, adminVars>>

StepRpush ==
    /\ \E r \in TurnIds : Rpush(r)
    /\ UNCHANGED <<stores, tasks, lastUpload, adminVars>>

StepLtrim ==
    /\ \E r \in TurnIds : Ltrim(r)
    /\ UNCHANGED <<stores, tasks, lastUpload, adminVars>>

ChatNext ==
    \/ ChatRequest
    \/ StepLoadHistory
    \/ StepCompose
    \/ StepPrimary
    \/ StepSecondary
    \/ StepRpush
    \/ StepLtrim

ChatSpec == ChatInit /\ [][ChatNext]_vars

\* ================================================ POST /documents/upload
\* a file of a request: the suffix of its name, its size in bytes, and whether
\* the extractor will be able to read it
Suffixes == {".pdf", ".DOCX", ".txt"}
Sizes == {1, max_file_size, max_file_size + 1}
RequestFile == [suffix : Suffixes, size : Sizes, kind : FileKinds]
RequestFiles == UNION {[1..n -> RequestFile] : n \in 1..MaxRequestFiles}

\* str.lower() of a suffix
lower(suffix) ==
    CASE suffix = ".DOCX" -> ".docx"
      [] suffix = ".PDF" -> ".pdf"
      [] OTHER -> suffix

\* the validation loop that lets every file through
upload_check_none(files, i) == "ok"

\* the validation loop of upload from file i on: the detail of the HTTPException
\* raised for the first file that fails a test, "ok" when the loop ends
RECURSIVE upload_check(_, _)
upload_check(files, i) ==
    IF i > Len(files) THEN "ok"
    ELSE IF lower(files[i].suffix) \notin supported_extensions
    THEN "Unsupported file type"
    ELSE IF files[i].size > max_file_size THEN "File exceeds size limit"
    ELSE upload_check(files, i + 1)

\* the handler of POST /documents/upload for an authenticated company: validate
\* and read the files, then hand the batch to the broker
upload_request(t, company_id, url, files) ==
    LET detail == upload_check(files, 1)
        documents == [i \in DOMAIN files |-> files[i].kind]
    IN  IF detail # "ok"
        THEN /\ CanEnqueue(t, company_id)
             /\ lastUpload' = [files |-> files, status |-> HTTP_400_BAD_REQUEST,
                               detail |-> detail, task |-> 0]
             /\ UNCHANGED <<stores, tasks>>
        ELSE \/ /\ CanEnqueue(t, company_id)     \* file.file.read() or .delay raises
                /\ lastUpload' = [files |-> files,
                                  status |-> HTTP_500_INTERNAL_SERVER_ERROR,
                                  detail |-> "Failed", task |-> 0]
                /\ UNCHANGED <<stores, tasks>>
             \/ /\ upload(t, company_id, url, documents)
                /\ lastUpload' = [files |-> files, status |-> HTTP_202_ACCEPTED,
                                  detail |-> "", task |-> t]

\* the state the upload endpoint is started in: the companies are registered
UploadInit ==
    /\ nextCompanyId = MaxTenants + 1
    /\ companies = Tenants
    /\ adminPrompts = {}
    /\ fileMetadata = {}
    /\ index = {}
    /\ tasks = [t \in TaskIds |-> NoTask]
    /\ Idle

UploadRequest ==
    /\ \E t \in TaskIds, c \in Tenants, u \in Urls \ {""}, files \in RequestFiles :
          upload_request(t, c, u, files)
    /\ UNCHANGED <<chatVars, adminVars>>

UploadNext == UploadRequest

UploadSpec == UploadInit /\ [][UploadNext]_vars

\* ============================================================== claims
Done(t) == tasks[t].pc = "done"

IsWebhookError(e) == e.prefix = "Webhook"

NotWebhookError(e) == ~IsWebhookError(e)

\* C1: every job given a non-empty callback url calls send_webhook exactly once,
\* with the result accumulated by its steps, whether all steps succeeded, a
\* failure was recorded or a step raised; no job ever calls it twice.
C1_NotifiedExactlyOnce ==
    \A t \in TaskIds :
        LET tk == tasks[t]
        IN  /\ tk.webhook_calls <= 1
            /\ (Done(t) /\ tk.url # "") =>
                 /\ tk.webhook_calls = 1
                 /\ tk.payload.success = tk.result.success
                 /\ tk.payload.details = tk.result.details
                 /\ tk.payload.company_id = tk.company_id
                 /\ tk.payload.errors = SelectSeq(tk.result.errors, NotWebhookError)

\* C1 witness: a teardown job with a url whose database step raised has finished
\* and has notified once
C1_Witness ==
    \E t \in TaskIds :
        /\ Done(t) /\ tasks[t].url # "" /\ tasks[t].kind = "delete_company"
        /\ tasks[t].sql_error
        /\ tasks[t].webhook_calls = 1

\* C2: when send_webhook fails (raises), the job does not raise, success and details are
\* what they were before the attempt, and errors gains exactly one entry, prefixed
\* "Webhook".
C2_WebhookFailureSwallowed ==
    \A t \in TaskIds :
        LET tk == tasks[t]
        IN  (Done(t) /\ tk.webhook = "raised") =>
                /\ ~tk.raised
                /\ tk.state = "SUCCESS"
                /\ tk.result.success = tk.payload.success
                /\ tk.result.details = tk.payload.details
                /\ Len(tk.result.errors) = Len(tk.payload.errors) + 1
                /\ SubSeq(tk.result.errors, 1, Len(tk.payload.errors)) = tk.payload.errors
                /\ IsWebhookError(tk.result.errors[Len(tk.result.errors)])

\* C2 witness: a job whose steps succeeded and whose webhook raised
C2_Witness ==
    \E t \in TaskIds :
        /\ Done(t) /\ tasks[t].webhook = "raised"
        /\ tasks[t].result.success

\* C3: every result of delete_company_task with success = true has
\* documents_deleted, prompts_deleted and company_deleted all true.
C3_SuccessRequiresAllThree ==
    \A t \in TaskIds :
        LET tk == tasks[t]
        IN  (tk.kind = "delete_company" /\ Done(t) /\ tk.result.success) =>
                /\ tk.result.details.documents_deleted
                /\ tk.result.details.prompts_deleted
                /\ tk.result.details.company_deleted

\* C4: a step that removes the Company row of a tenant leaves a state in which
\* no chunk, no FileMetadata row and no AdminPrompt row of that tenant remains.
C4_CompanyRemovedLast ==
    [][\A c \in Tenants :
         (c \in companies /\ c \notin companies') =>
            /\ {k \in index' : k.company_id = c} = {}
            /\ {r \in fileMetadata' : r.company_id = c} = {}
            /\ {p \in adminPrompts' : p.company_id = c} = {}]_vars

\* C5: a teardown job that finds the Company row absent does not raise, ends with
\* company_deleted = false and success = false and a "Company not found" error,
\* and has run the documents and the prompt step, whose flags tell what each of
\* them did: documents_deleted is what delete_documents reported, prompts_deleted
\* is whether the delete statement matched a row.
C5_AbsentCompanyReported ==
    \A t \in TaskIds :
        LET tk == tasks[t]
        IN  (tk.kind = "delete_company" /\ Done(t) /\ tk.company_found = "absent") =>
                /\ ~tk.raised
                /\ ~tk.result.details.company_deleted
                /\ ~tk.result.success
                /\ \E k \in DOMAIN tk.result.errors :
                        tk.result.errors[k].msg = "Company not found"
                /\ tk.ret # "none"
                /\ tk.result.details.documents_deleted = (tk.ret = "True")
                /\ tk.result.details.prompts_deleted = (tk.rowcount > 0)

\* C6: a teardown submission is executed at most max_retries times, and it is
\* left for good after an attempt that failed on a SQLAlchemyError only when the
\* retry budget is used up.
C6_RetriedOnStoreError ==
    \A t \in TaskIds :
        LET tk == tasks[t]
        IN  tk.kind = "delete_company" =>
                /\ tk.attempts <= max_retries
                /\ (Done(t) /\ tk.sql_error) => tk.attempts = max_retries

\* C7: polling a finished job returns the job's result dict as result and reports
\* a job whose result has success = false as a failure; polling an unfinished job
\* returns status PENDING.
C7_PollingReturnsResult ==
    \A t \in TaskIds :
        LET tk == tasks[t]
            r == TaskStatusResponse(t)
        IN  tk.kind # "none" =>
                IF Done(t)
                THEN /\ r.result = Some(tk.result)
                     /\ ~tk.result.success => r.status = "FAILURE"
                ELSE r.status = "PENDING"

\* C8: in an ingest job in which nothing but text extraction failed, every valid
\* file of the batch is indexed with its FileMetadata row written, and every
\* corrupt file is named in the result's errors.
C8_CorruptFileDoesNotStopJob ==
    \A t \in TaskIds :
        LET tk == tasks[t]
        IN  (tk.kind = "upload" /\ Done(t) /\ tk.abort \in {"none", "create_batch"}) =>
                \A j \in DOMAIN tk.documents :
                    /\ tk.documents[j] = "valid" => j \in tk.indexed
                    /\ tk.documents[j] = "corrupt" =>
                          \E k \in DOMAIN tk.result.errors :
                              <<"file", t, j>> \in tk.result.errors[k].names

\* C9: an ingest job ends with success = true and documents_uploaded = true only
\* if at least one file of the batch was indexed, and with success = false if
\* upload_documents reported indexed = false.
C9_SuccessNeedsIndexedFile ==
    \A t \in TaskIds :
        LET tk == tasks[t]
        IN  (tk.kind = "upload" /\ Done(t)) =>
                /\ (tk.result.success /\ tk.result.details.documents_uploaded)
                        => tk.indexed # {}
                /\ tk.ret = "False" => ~tk.result.success

\* C10: a delete-all or teardown job whose delete-all-documents step failed on an
\* unreachable index or store ends with documents_deleted = false, success =
\* false and a non-empty errors list, and it finishes and notifies.
C10_DeleteFailureRecorded ==
    \A t \in TaskIds :
        LET tk == tasks[t]
        IN  (tk.kind \in {"delete_documents", "delete_company"} /\ tk.ret = "False"
                /\ Done(t)) =>
                    /\ ~tk.result.details.documents_deleted
                    /\ ~tk.result.success
                    /\ tk.result.errors # <<>>
                    /\ tk.url # "" => tk.webhook_calls = 1

C12_DeleteNothingIsNoOp ==
    [][\A t \in TaskIds :
         LET tk == tasks[t]
         IN  (tk.kind = "delete_documents" /\ tasks'[t] # tk
                /\ ChunksOf(tk.company_id) = {} /\ tk.docs = {})
             => /\ index' = index
                /\ fileMetadata' = fileMetadata
                /\ tasks'[t].pc = "done" =>
                      /\ tasks'[t].result.success
                      /\ tasks'[t].result.details.documents_deleted]_vars

\* C12 witness: two delete-all-documents jobs have run one after the other for a
\* tenant that never had a chunk, and both ended with success = true
C12_Witness ==
    /\ index = {}
    /\ \A t \in TaskIds :
          /\ tasks[t].kind = "delete_documents"
          /\ Done(t)
          /\ tasks[t].result.success
          /\ tasks[t].result.details.documents_deleted

\* C13: no run of the three tasks terminates by raising, and every exception
\* raised by a step of a run is turned into an entry of the result's errors: a
\* finished job in which a step raised has an entry that is not the webhook's.
C13_StepFailureBecomesError ==
    \A t \in TaskIds :
        LET tk == tasks[t]
        IN  Done(t) =>
                /\ ~tk.raised
                /\ tk.state = "SUCCESS"
                /\ (tk.ret = "False" \/ tk.sql_error) =>
                      \E k \in DOMAIN tk.result.errors :
                          NotWebhookError(tk.result.errors[k])

\* ------------------------------------------------------ chat claims
Answered(r) == turns[r].pc = "done"

\* a turn is between the append and the trim of its write on key k
Writing(k) == \E r \in TurnIds : turns[r].pc = "ltrim" /\ KeyOf(turns[r]) = k

\* C14: a write appends the user and the assistant entry of the turn to the list
\* of its key, and when the write is left the list is the last 10 entries of the
\* list the append made, so it has at most 10 entries and its oldest entries are
\* the ones dropped.
C14_HistoryKeepsLast10 ==
    [][\A r \in TurnIds :
         LET tn == turns[r]
             k == KeyOf(tn)
         IN  /\ (tn.pc = "rpush" /\ turns'[r].pc = "ltrim") =>
                   history'[k] = history[k] \o TurnEntries(QuestionOf(r), tn.answer[1])
             /\ (tn.pc = "ltrim" /\ turns'[r].pc = "done") =>
                   /\ history'[k] = LastN(HistoryLimit, history[k])
                   /\ Len(history'[k]) <= HistoryLimit]_vars

\* C15: the append and the trim of a write are one atomic step: no list of more
\* than 10 entries is ever read by get_redis_history, and none is in the Session
\* Store once the write on its key is over.
C15_AppendTrimAtomic ==
    /\ \A r \in TurnIds :
          turns[r].pc = "compose" => Len(turns[r].messages) <= HistoryLimit
    /\ \A k \in HistoryKeys : ~Writing(k) => Len(history[k]) <= HistoryLimit

\* the errors the provider step falls back on
ClassifiedErrors ==
    {"RateLimitError", "InternalServerError", "APIError", "APITimeoutError",
     "LengthFinishReasonError", "ContentFilterFinishReasonError"}

\* C16: a primary call that fails with a classified error is followed by the call
\* of the secondary provider with the same message list, and when that call
\* succeeds the turn is answered 200 with the secondary provider's answer.
C16_FallbackAnswers ==
    \A r \in TurnIds :
        LET tn == turns[r]
        IN  /\ tn.e \in ClassifiedErrors => tn.pc = "secondary"
            /\ tn.secondary # "none" =>
                  /\ tn.primary = "raised"
                  /\ tn.secondary_messages = tn.final_messages
            /\ (Answered(r) /\ tn.secondary = "ok") =>
                  /\ tn.response.status = HTTP_200_OK
                  /\ tn.response.answer = Some(Answer(QuestionOf(r), "secondary"))

\* C16 witness: a turn whose primary call raised and whose secondary call returned
\* has been answered 200
C16_Witness ==
    \E r \in TurnIds :
        /\ Answered(r) /\ turns[r].primary = "raised" /\ turns[r].secondary = "ok"
        /\ turns[r].response.status = HTTP_200_OK
        /\ turns[r].history_read = "ok" /\ Len(turns[r].final_messages) > 2

ProviderExhausted(tn) ==
    tn.primary = "raised" /\ (tn.secondary = "none" \/ tn.secondary = "raised")

\* C18: an authenticated chat request is answered 200 with an answer or, when the
\* provider step is exhausted, 503; no failure of the Session Store, of the
\* embedding, of the index search or of the read of the AdminPrompt gives another
\* outcome.
C18_OnlyProviderFailsTurn ==
    \A r \in TurnIds :
        LET tn == turns[r]
        IN  Answered(r) =>
                IF ProviderExhausted(tn)
                THEN tn.response.status = HTTP_503_SERVICE_UNAVAILABLE
                ELSE /\ tn.response.status = HTTP_200_OK
                     /\ tn.response.answer # None

\* C19: a request whose session token is missing, expired or invalid is served
\* under a fresh session id with a newly signed token: its history is read and
\* written under the new key, it is answered with no status other than those of
\* the turn itself, and a 200 answer carries the new token.
C19_BadTokenStartsSession ==
    \A r \in TurnIds :
        LET tn == turns[r]
        IN  (tn.pc # "none" /\ tn.token.kind \in {"missing", "expired", "invalid"}) =>
                /\ tn.session_id \notin IssuedSessions
                /\ \A q \in TurnIds \ {r} : turns[q].session_id # tn.session_id
                /\ tn.session_id \in sessions
                /\ tn.jwt_token = Token("valid", tn.session_id)
                /\ tn.rpush = "ok" =>
                      history[HistoryKey(tn.company_id, tn.session_id)] =
                          TurnEntries(QuestionOf(r), tn.answer[1])
                /\ tn.response.status \in
                      {0, HTTP_200_OK, HTTP_500_INTERNAL_SERVER_ERROR,
                       HTTP_503_SERVICE_UNAVAILABLE}
                /\ tn.response.status = HTTP_200_OK =>
                      /\ tn.response.token = tn.jwt_token
                      /\ tn.response.answer = tn.answer
                      /\ tn.answer # None

\* C19 witness: a request that came with an expired token has been answered 200
\* after its two entries were stored
C19_Witness ==
    \E r \in TurnIds :
        /\ Answered(r) /\ turns[r].token.kind = "expired"
        /\ turns[r].response.status = HTTP_200_OK
        /\ turns[r].rpush = "ok"

\* ---------------------------------------------------- upload claims
InvalidFile(f) == lower(f.suffix) \notin {".pdf", ".docx"} \/ f.size > max_file_size

PastPrimary(tn) == tn.primary # "none"

\* C24: a turn that reaches the provider step calls the primary provider exactly
\* once and the secondary provider at most once, the secondary only after the
\* primary call has raised; when both calls have raised the turn is answered 503
\* with no answer, and nothing of it is stored.
C24_ProvidersCalledOnce ==
    \A r \in TurnIds :
        LET tn == turns[r]
        IN  /\ tn.primary_calls <= 1
            /\ tn.secondary_calls <= 1
            /\ PastPrimary(tn) => tn.primary_calls = 1
            /\ (tn.pc \in {"rpush", "ltrim"} \/ tn.rpush # "none") => tn.primary_calls = 1
            /\ (tn.secondary_calls = 1 \/ tn.pc = "secondary") =>
                  tn.primary = "raised" /\ tn.primary_calls = 1
            /\ tn.secondary # "none" => tn.secondary_calls = 1
            /\ (tn.primary = "raised" /\ tn.secondary = "raised") =>
                  /\ Answered(r)
                  /\ tn.response.status = HTTP_503_SERVICE_UNAVAILABLE
                  /\ tn.response.answer = None
                  /\ tn.answer = None
                  /\ tn.rpush = "none"

\* C24 witness: a turn whose primary call and whose secondary call both raised
\* has been answered 503
C24_Witness ==
    \E r \in TurnIds :
        /\ Answered(r)
        /\ turns[r].primary = "raised" /\ turns[r].secondary = "raised"
        /\ turns[r].primary_calls = 1 /\ turns[r].secondary_calls = 1
        /\ turns[r].response.status = HTTP_503_SERVICE_UNAVAILABLE

\* the user entry and the assistant entry turn r stores
EntriesOf(r) == TurnEntries(QuestionOf(r), turns[r].answer[1])

\* turn r has obtained an answer and its write has appended its entries
Persisted(r) == Answered(r) /\ turns[r].answer # None /\ turns[r].rpush = "ok"

\* C25: when two turns on the same (tenant, session) key have both obtained an
\* answer and both have persisted, the four newest entries of the list of the key
\* are the user and assistant entries of the two turns, each pair adjacent and in
\* order: no trim of one turn has removed what the other appended.
C25_ConcurrentAppendsSurvive ==
    \A r1, r2 \in TurnIds :
        (r1 # r2 /\ Persisted(r1) /\ Persisted(r2) /\ KeyOf(turns[r1]) = KeyOf(turns[r2])) =>
            LET stored == history[KeyOf(turns[r1])]
            IN  /\ Len(stored) >= 4
                /\ LastN(4, stored) \in {EntriesOf(r1) \o EntriesOf(r2),
                                          EntriesOf(r2) \o EntriesOf(r1)}

\* C25 witness: two turns on one key ran concurrently on a full list (each read
\* its 10 entries before the other appended), both have appended and trimmed,
\* and the list is full again
C25_Witness ==
    \E r1, r2 \in TurnIds :
        /\ r1 # r2 /\ Persisted(r1) /\ Persisted(r2)
        /\ KeyOf(turns[r1]) = KeyOf(turns[r2])
        /\ turns[r1].ltrim = "ok" /\ turns[r2].ltrim = "ok"
        /\ Len(history[KeyOf(turns[r1])]) = HistoryLimit
        /\ Len(turns[r1].messages) = HistoryLimit + 1
        /\ Len(turns[r2].messages) = HistoryLimit + 1

\* the turn has composed the list it sends to the provider
Composed(tn) == tn.pc \in {"primary", "secondary", "rpush", "ltrim"} \/ PastPrimary(tn)

\* C27: a turn whose read of the history failed goes on with an empty history:
\* it is not answered by that failure, the list it sends to the provider is the
\* system message followed by the new user message and nothing else, and when a
\* provider answers the turn is answered 200 with that answer.
C27_HistoryOutageGivesEmptyHistory ==
    \A r \in TurnIds :
        LET tn == turns[r]
        IN  tn.history_read = "failed" =>
              /\ tn.pc = "compose" => (tn.messages = <<>> /\ tn.response = NoResponse)
              /\ Composed(tn) =>
                    tn.final_messages = <<SystemMessage(tn.admin_prompt),
                                          UserMessage(tn.context, QuestionOf(r))>>
              /\ (Answered(r) /\ tn.answer # None) =>
                    /\ tn.response.status = HTTP_200_OK
                    /\ tn.response.answer = tn.answer

\* C27 witness: a turn on a key that holds earlier entries could not read them,
\* sent two messages to the primary provider, could not write either, and has
\* been answered 200
C27_Witness ==
    \E r \in TurnIds :
        /\ Answered(r) /\ turns[r].history_read = "failed"
        /\ history[KeyOf(turns[r])] # <<>>
        /\ turns[r].rpush = "failed"
        /\ Len(turns[r].final_messages) = 2
        /\ turns[r].primary = "ok"
        /\ turns[r].response.status = HTTP_200_OK

\* C28: a turn whose embedding or index search failed goes on with an empty
\* context: the new user message carries no chunk, the failure does not answer
\* the turn (only the read of the AdminPrompt, C18, can end it before the
\* provider is called), and when a provider answers the turn is answered 200.
C28_RetrievalFailureGivesEmptyContext ==
    \A r \in TurnIds :
        LET tn == turns[r]
        IN  tn.retrieval = "failed" =>
              /\ tn.context = {}
              /\ tn.response # InternalError =>
                    /\ Composed(tn)
                    /\ tn.final_messages[Len(tn.final_messages)]
                          = UserMessage({}, QuestionOf(r))
              /\ (Answered(r) /\ tn.answer # None) =>
                    /\ tn.response.status = HTTP_200_OK
                    /\ tn.response.answer = tn.answer

\* C28 witness: a turn of a tenant that has indexed chunks could not retrieve
\* them, called the primary provider and has been answered 200
C28_Witness ==
    \E r \in TurnIds :
        /\ Answered(r) /\ turns[r].retrieval = "failed"
        /\ ChunksOf(turns[r].company_id) # {}
        /\ turns[r].primary = "ok" /\ turns[r].primary_calls = 1
        /\ turns[r].response.status = HTTP_200_OK
        /\ turns[r].response.answer # None

\* C29: the history changes only by the write of a turn that holds the answer
\* of a provider, and however the write ends (the append or the trim raising or
\* not) the turn is answered 200 with that answer and the token of its session.
C29_WriteFailureKeepsResponse ==
    [][/\ history' # history =>
            \E r \in TurnIds :
                /\ turns[r].pc \in {"rpush", "ltrim"}
                /\ turns'[r] # turns[r]
                /\ turns[r].answer # None
                /\ turns[r].primary = "ok" \/ turns[r].secondary = "ok"
       /\ \A r \in TurnIds :
            (turns[r].pc \in {"rpush", "ltrim"} /\ turns'[r].pc = "done") =>
                /\ turns[r].answer # None
                /\ turns'[r].response =
                      [status |-> HTTP_200_OK, answer |-> turns[r].answer,
                       token |-> turns[r].jwt_token]]_vars

\* C29 witness: a turn under a newly minted session whose append succeeded and
\* whose trim raised has been answered 200 with its answer and the new token
C29_Witness ==
    \E r \in TurnIds :
        /\ Answered(r) /\ turns[r].rpush = "ok" /\ turns[r].ltrim = "failed"
        /\ turns[r].token.kind = "missing"
        /\ turns[r].response.status = HTTP_200_OK
        /\ turns[r].response.answer = turns[r].answer
        /\ turns[r].answer # None
        /\ turns[r].response.token = turns[r].jwt_token

\* C30: the list a turn sends to the provider is one system message carrying the
\* tenant's AdminPrompt (nothing when the tenant has none), then the entries of
\* the history of its key, decoded, in their stored order, then one user message
\* carrying the retrieved context and the question; the provider steps leave the
\* list as it is, and the secondary provider is called with it.
C30_MessageListShape ==
    [][\A r \in TurnIds :
         LET tn == turns[r]
             after == turns'[r]
             stored == history[KeyOf(tn)]
         IN  /\ (tn.pc = "load_history" /\ after.history_read = "ok") =>
                   /\ Len(after.messages) = Len(stored)
                   /\ \A i \in DOMAIN stored : json_dumps(after.messages[i]) = stored[i]
             /\ (tn.pc = "compose" /\ after.pc = "primary") =>
                   /\ after.context \in {{}, {c.id : c \in ChunksOf(tn.company_id)}}
                   /\ after.final_messages =
                        <<Message("system",
                                  Content("system", 0, "", {}, get_admin_prompt(tn.company_id)))>>
                        \o tn.messages
                        \o <<Message("user",
                                     Content("user", QuestionOf(r), "", after.context, <<>>))>>
             /\ tn.pc \in {"primary", "secondary"} =>
                   after.final_messages = tn.final_messages
             /\ (tn.pc = "secondary" /\ after.pc # "secondary") =>
                   after.secondary_messages = tn.final_messages]_vars

\* C30 witness: a turn of a tenant that has a prompt and indexed chunks, on a key
\* with stored entries, sent system message, history and user message to the
\* primary provider and then to the secondary one, which answered
C30_Witness ==
    \E r \in TurnIds :
        /\ Answered(r) /\ turns[r].history_read = "ok" /\ turns[r].retrieval = "ok"
        /\ turns[r].admin_prompt # <<>> /\ turns[r].context # {}
        /\ Len(turns[r].final_messages) = HistoryLimit + 2
        /\ turns[r].final_messages[1].role = "system"
        /\ turns[r].primary = "raised" /\ turns[r].secondary = "ok"
        /\ turns[r].secondary_messages = turns[r].final_messages

\* ================================================================ PromptSpec
\* POST of the admin prompt, taken commit by commit: requests served by different
\* server processes share the relational store and interleave at its statements.

\* the AdminPrompt row a request of SaveIds inserts: its id is new
NewPromptId(s) == MaxTenants + s

\* session.exec(select(AdminPrompt).where(company_id == company.id)).first()
first_prompt(company_id) ==
    LET rows == PromptsOf(company_id)
    IN  IF rows = {} THEN None ELSE Some(Min({p.id : p \in rows}))

\* {"saved": save_admin_prompt(...)}: the function returns nothing
Saved == Some([saved |-> None])

\* the outer `except Exception` of save_prompt: return {"saved": False}
NotSaved == Some([saved |-> Some(FALSE)])

\* save_prompt is entered for an authenticated company
save_prompt(s, company_id) ==
    /\ saves[s].pc = "none"
    /\ company_id \in companies
    /\ saves' = [saves EXCEPT ![s] =
          [@ EXCEPT !.pc = "select", !.company_id = company_id,
                    !.new_prompt = NewPromptId(s)]]
    /\ UNCHANGED adminPrompts

\* save_admin_prompt: old_prompt = session.exec(select ...).first()
save_admin_prompt_select(s) ==
    LET sv == saves[s]
    IN  /\ sv.pc = "select"
        /\ \/ LET old_prompt == first_prompt(sv.company_id)
              IN  saves' = [saves EXCEPT ![s] =
                     [sv EXCEPT !.old_prompt = old_prompt,
                                !.pc = IF old_prompt # None THEN "delete" ELSE "insert"]]
           \/ saves' = [saves EXCEPT ![s] =                 \* the select raises
                 [sv EXCEPT !.pc = "done", !.response = NotSaved]]
        /\ UNCHANGED adminPrompts

\* if old_prompt: session.delete(old_prompt); session.commit().  A row that a
\* concurrent request has deleted already matches no row (a warning, no error).
save_admin_prompt_delete(s) ==
    LET sv == saves[s]
    IN  /\ sv.pc = "delete"
        /\ \/ /\ adminPrompts' = {p \in adminPrompts : p.id # sv.old_prompt[1]}
              /\ saves' = [saves EXCEPT ![s] = [sv EXCEPT !.pc = "insert"]]
           \/ /\ UNCHANGED adminPrompts                     \* the commit raises
              /\ saves' = [saves EXCEPT ![s] =
                    [sv EXCEPT !.pc = "done", !.response = NotSaved]]

\* session.add(AdminPrompt(prompt=..., company_id=company.id)); session.commit()
save_admin_prompt_insert(s) ==
    LET sv == saves[s]
    IN  /\ sv.pc = "insert"
        /\ \/ /\ adminPrompts' = adminPrompts \cup
                    {[id |-> sv.new_prompt, company_id |-> sv.company_id]}
              /\ saves' = [saves EXCEPT ![s] =
                    [sv EXCEPT !.pc = "done", !.response = Saved]]
           \/ /\ UNCHANGED adminPrompts                     \* the commit raises
              /\ saves' = [saves EXCEPT ![s] =
                    [sv EXCEPT !.pc = "done", !.response = NotSaved]]

\* the companies are registered; a company has a prompt or none
PromptInit ==
    /\ nextCompanyId = MaxTenants + 1
    /\ companies = Tenants
    /\ \E with_prompt \in SUBSET Tenants :
          adminPrompts = {[id |-> c, company_id |-> c] : c \in with_prompt}
    /\ fileMetadata = {}
    /\ index = {}
    /\ tasks = [t \in TaskIds |-> NoTask]
    /\ Idle

promptFrame == <<nextCompanyId, companies, fileMetadata, index, tasks, chatVars,
                 lastUpload, deletes, batchCall, registrations, companyNames>>

SaveRequest ==
    /\ \E s \in SaveIds, c \in Tenants : save_prompt(s, c)
    /\ UNCHANGED promptFrame

StepSaveSelect ==
    /\ \E s \in SaveIds : save_admin_prompt_select(s)
    /\ UNCHANGED promptFrame

StepSaveDelete ==
    /\ \E s \in SaveIds : save_admin_prompt_delete(s)
    /\ UNCHANGED promptFrame

StepSaveInsert ==
    /\ \E s \in SaveIds : save_admin_prompt_insert(s)
    /\ UNCHANGED promptFrame

PromptNext == SaveRequest \/ StepSaveSelect \/ StepSaveDelete \/ StepSaveInsert

PromptSpec == PromptInit /\ [][PromptNext]_vars

\* ---------------------------------------------------- prompt claims
\* C21: in every reachable state, also while and after requests to save the
\* prompt of one tenant run concurrently, the tenant has at most one AdminPrompt
\* row.
C21_OnePromptPerTenant ==
    \A c \in Tenants : Cardinality(PromptsOf(c)) <= 1

\* request s is the only request to save a prompt that the tenant has received
OnlySave(s) ==
    \A o \in SaveIds \ {s} : saves[o].company_id # saves[s].company_id

\* C26: while the prompt of a tenant is being replaced by a request, and when the
\* request is over, a reader of the tenant's prompt gets the old prompt or the
\* new one, never none: the delete of the old row and the insert of the new one
\* take effect together.
C26_ReplaceIsOneTransaction ==
    \A s \in SaveIds :
        LET sv == saves[s]
        IN  (sv.pc \in {"delete", "insert", "done"} /\ sv.old_prompt # None /\ OnlySave(s)) =>
                get_admin_prompt(sv.company_id) \in {sv.old_prompt, Some(sv.new_prompt)}

\* ============================================================== DocumentSpec
\* DELETE /documents/delete/{document_id} for the tenants of DocTenants, each of
\* which has one indexed document.  The handler awaits nothing: it is one step.

\* the document of tenant c (doc_id = uuid() when it was uploaded), and an id
\* no document has
DocumentOf(c) == DocId(0, c)
DocumentIds == {DocumentOf(c) : c \in DocTenants} \cup {DocId(0, 0)}

\* result.get(key, False)
get(result, key) == IF key \in DOMAIN result THEN result[key] ELSE FALSE

\* the dicts delete_document_by_id returns
Results ==
    {[deleted |-> TRUE], [deleted |-> FALSE],
     [deleted |-> FALSE, error |-> "No document found"]}

\* delete_document_by_id(document_id) returning `result`: search by document_id
\* alone, delete the chunks found, and when the first result succeeded delete
\* the FileMetadata rows of the document_id and commit
delete_document_by_id(document_id, result) ==
    LET docs == {c \in index : c.document_id = document_id}
    IN  \/ /\ result = [deleted |-> FALSE]       \* search or delete_documents raises
           /\ UNCHANGED <<index, fileMetadata>>
        \/ /\ docs = {}
           /\ result = [deleted |-> FALSE, error |-> "No document found"]
           /\ UNCHANGED <<index, fileMetadata>>
        \/ /\ docs # {}
           /\ \E removed \in SUBSET docs, first \in docs :
                /\ index' = index \ removed
                /\ IF FirstSucceeded(docs, removed, first)
                   THEN \/ /\ fileMetadata' =
                                {r \in fileMetadata : r.document_id # document_id}
                           /\ result = [deleted |-> TRUE]
                        \/ /\ UNCHANGED fileMetadata          \* the commit raises
                           /\ result = [deleted |-> FALSE]
                   ELSE /\ UNCHANGED fileMetadata             \* the bare raise
                        /\ result = [deleted |-> FALSE]

\* if not result or not result.get("success", False): raise HTTPException(404);
\* return DeleteDocumentResponse(status=result)
delete_document_status(result) ==
    IF DOMAIN result = {} \/ ~get(result, "success")
    THEN HTTP_404_NOT_FOUND ELSE HTTP_200_OK

\* delete_document for an authenticated company
delete_document(d, company_id, document_id) ==
    /\ deletes[d].pc = "none"
    /\ company_id \in companies
    /\ \E result \in Results :
          /\ delete_document_by_id(document_id, result)
          /\ deletes' = [deletes EXCEPT ![d] =
                [pc |-> "done", company_id |-> company_id,
                 document_id |-> Some(document_id), result |-> Some(result),
                 status |-> delete_document_status(result)]]

\* the companies are registered and the document of each is indexed in
\* MaxChunks chunks, with its FileMetadata row
DocumentInit ==
    /\ nextCompanyId = MaxDocTenants + 1
    /\ companies = DocTenants
    /\ adminPrompts = {}
    /\ index = {Chunk(c, DocumentOf(c), k) : c \in DocTenants, k \in 1..MaxChunks}
    /\ fileMetadata = {[file_name |-> <<"file", 0, c>>, company_id |-> c,
                        document_id |-> DocumentOf(c)] : c \in DocTenants}
    /\ tasks = [t \in TaskIds |-> NoTask]
    /\ Idle

DeleteRequest ==
    /\ \E d \in DeleteIds, c \in DocTenants, document_id \in DocumentIds :
          delete_document(d, c, document_id)
    /\ UNCHANGED <<nextCompanyId, companies, adminPrompts, tasks, chatVars,
                   lastUpload, saves, batchCall, registrations, companyNames>>

DocumentNext == DeleteRequest

DocumentSpec == DocumentInit /\ [][DocumentNext]_vars

\* ---------------------------------------------------- document claims
\* the FileMetadata rows of a company
MetadataOf(company_id) == {r \in fileMetadata : r.company_id = company_id}

\* C22: a request to delete a document is answered 200 when chunks with the
\* document_id existed and the request has removed them and the FileMetadata
\* rows of the document, and 404 only when no chunk with the document_id existed.
C22_DeleteDocumentStatus ==
    [][\A d \in DeleteIds :
         (deletes[d].pc = "none" /\ deletes'[d].pc = "done") =>
            LET id == deletes'[d].document_id[1]
                docs == {c \in index : c.document_id = id}
            IN  /\ (/\ docs # {}
                    /\ {c \in index' : c.document_id = id} = {}
                    /\ {r \in fileMetadata' : r.document_id = id} = {})
                      => deletes'[d].status = HTTP_200_OK
                /\ deletes'[d].status = HTTP_404_NOT_FOUND => docs = {}]_vars

EntriesOfTurn(k, r) ==
    {i \in DOMAIN history[k] : json_loads(history[k][i]).content.n = QuestionOf(r)}

\* C31: a turn answered 503 has made no write to the Session Store: neither
\* its append nor its trim was attempted, and no list holds its question or an
\* answer to it.
C31_FailedTurnWritesNothing ==
    \A r \in TurnIds :
        LET tn == turns[r]
        IN  (Answered(r) /\ tn.response.status = HTTP_503_SERVICE_UNAVAILABLE) =>
                /\ tn.rpush = "none" /\ tn.ltrim = "none"
                /\ \A k \in HistoryKeys : EntriesOfTurn(k, r) = {}

\* C31 witness: one turn has been answered 503 after both providers raised,
\* while the other turn on the same key has stored its two entries
C31_Witness ==
    \E r, o \in TurnIds :
        /\ r # o /\ Answered(r) /\ Answered(o)
        /\ turns[r].response.status = HTTP_503_SERVICE_UNAVAILABLE
        /\ turns[r].secondary = "raised"
        /\ KeyOf(turns[o]) = KeyOf(turns[r])
        /\ turns[o].rpush = "ok"
        /\ EntriesOfTurn(KeyOf(turns[r]), o) # {}

\* C32: every step of a turn for (tenant T, session S) leaves the list of every
\* key other than (T, S) as it was, and the history the turn loads is the list
\* of (T, S).
C32_TurnTouchesOwnKeyOnly ==
    [][\A r \in TurnIds :
         turns'[r] # turns[r] =>
            LET own == HistoryKey(turns'[r].company_id, turns'[r].session_id)
            IN  /\ \A k \in HistoryKeys \ {own} : history'[k] = history[k]
                /\ (turns[r].pc = "load_history" /\ turns'[r].history_read = "ok") =>
                      turns'[r].messages =
                         [i \in DOMAIN history[own] |-> json_loads(history[own][i])]]_vars

\* C32 witness: two turns of one tenant under different sessions have both
\* stored their entries, each in its own list, and the list another tenant
\* keeps under the same session id still holds its earlier turns
C32_Witness ==
    \E r, o \in TurnIds :
        /\ Answered(r) /\ Answered(o)
        /\ turns[r].company_id = turns[o].company_id
        /\ turns[r].session_id # turns[o].session_id
        /\ turns[r].rpush = "ok" /\ turns[o].rpush = "ok"
        /\ EntriesOfTurn(KeyOf(turns[r]), r) # {} /\ EntriesOfTurn(KeyOf(turns[r]), o) = {}
        /\ EntriesOfTurn(KeyOf(turns[o]), o) # {} /\ EntriesOfTurn(KeyOf(turns[o]), r) = {}
        /\ history[HistoryKey(OtherTenant, turns[r].session_id)] = PastHistory(MaxPastTurns)
        /\ turns[r].session_id \in IssuedSessions

\* C33: every list of the Session Store has an even number of entries, a user
\* entry at every odd position and an assistant entry at every even one, and
\* each user entry is followed by the answer to its own question: appends and
\* trims of concurrent turns split no pair.
C33_HistoryAlternates ==
    \A k \in HistoryKeys :
        LET stored == history[k]
        IN  /\ Len(stored) % 2 = 0
            /\ \A i \in DOMAIN stored :
                  LET m == json_loads(stored[i])
                  IN  IF i % 2 = 1
                      THEN /\ m.role = "user"
                           /\ m.content.kind = "question"
                           /\ json_loads(stored[i + 1]).content.n = m.content.n
                      ELSE /\ m.role = "assistant"
                           /\ m.content.kind = "answer"

\* C33 witness: two turns on one key whose list was full have both appended
\* and neither has trimmed yet: the list holds 14 entries
C33_Witness ==
    \E r, o \in TurnIds :
        /\ r # o /\ KeyOf(turns[r]) = KeyOf(turns[o])
        /\ turns[r].pc = "ltrim" /\ turns[o].pc = "ltrim"
        /\ Len(history[KeyOf(turns[r])]) = HistoryLimit + 4

\* ---------------------------------------------------- pipeline claims, continued
\* C34: when the database step of delete_company_task sets
\* details.prompts_deleted to true, the AdminPrompt rows of the company are gone
\* from the relational store when the step is over.
C34_PromptsDeletedIsDurable ==
    [][\A t \in TaskIds :
         (/\ tasks[t].pc = "company_db" /\ tasks'[t].pc = "finally"
          /\ tasks'[t].result.details.prompts_deleted)
         => {p \in adminPrompts' : p.company_id = tasks[t].company_id} = {}]_vars

\* the FileMetadata rows of a document
RowsOf(doc_id) == {r \in fileMetadata : r.document_id = doc_id}

IndexedDocuments(company_id) == {c.document_id : c \in ChunksOf(company_id)}
RecordedDocuments(company_id) ==
    {r.document_id : r \in {x \in fileMetadata : x.company_id = company_id}}

C38_NoUrlNoWebhook ==
    [][\A t \in TaskIds :
         LET tk == tasks[t]
             after == tasks'[t]
         IN  (tk.pc = "finally" /\ after.pc = "done") =>
                /\ after.result.success = tk.result.success
                /\ after.result.details = tk.result.details
                /\ tk.url = "" =>
                      /\ after.result = tk.result
                      /\ after.webhook_calls = 0 /\ after.webhook = "none"
                      /\ after.payload = NoResult
                      /\ \A i \in DOMAIN after.result.errors :
                            NotWebhookError(after.result.errors[i])]_vars

\* C38 witness: two ingest jobs of the same batch have finished, one without a
\* url and one with a url whose webhook failed: the first made no request and
\* has no "Webhook" entry, the second has one, and success and details are equal
C38_Witness ==
    \E t, u \in TaskIds :
        /\ Done(t) /\ Done(u)
        /\ tasks[t].kind = "upload" /\ tasks[u].kind = "upload"
        /\ tasks[t].documents = tasks[u].documents
        /\ tasks[t].url = "" /\ tasks[u].url # ""
        /\ tasks[t].webhook_calls = 0 /\ tasks[u].webhook_calls = 1
        /\ tasks[u].webhook = "raised"
        /\ \E i \in DOMAIN tasks[u].result.errors : IsWebhookError(tasks[u].result.errors[i])
        /\ \A i \in DOMAIN tasks[t].result.errors : NotWebhookError(tasks[t].result.errors[i])
        /\ tasks[t].result.success = tasks[u].result.success
        /\ tasks[t].result.details = tasks[u].result.details

\* ------------------------------------------------------- create_batch
\* the text of a file is a string of letters and blanks
Chars == {"a", " "}
RawTexts == UNION {[1..n -> Chars] : n \in 0..MaxTextLen}
\* the chunks a text of MaxTextLen characters is cut into
MaxBatchChunks == (MaxTextLen + ChunkSize - 1) \div ChunkSize
\* the embedding provider, for each chunk it is asked about
EmbeddingOutcomes == {"ok", "raises"}
\* file_content: empty bytes, bytes the extractor cannot read, or a document
BatchFiles ==
    {[kind |-> "empty", raw |-> <<>>], [kind |-> "corrupt", raw |-> <<>>]}
        \cup {[kind |-> "valid", raw |-> raw] : raw \in RawTexts}

\* str.strip(): the text without its leading and trailing blanks
RECURSIVE lstrip(_)
lstrip(s) == IF s # <<>> /\ Head(s) = " " THEN lstrip(Tail(s)) ELSE s

RECURSIVE rstrip(_)
rstrip(s) ==
    IF s # <<>> /\ s[Len(s)] = " " THEN rstrip(SubSeq(s, 1, Len(s) - 1)) ELSE s

strip(s) == rstrip(lstrip(s))

\* extract_text: the stripped text of the document, or ValueError
extract_text(file) ==
    IF file.kind = "corrupt"
    THEN [raised |-> Some("ValueError"), text |-> <<>>]
    ELSE [raised |-> None, text |-> strip(file.raw)]

\* chunk_text: [text[i : i + size] for i in range(0, len(text), size)]
chunk_text(text, size) ==
    [k \in 1..((Len(text) + size - 1) \div size) |->
        SubSeq(text, (k - 1) * size + 1,
               IF k * size <= Len(text) THEN k * size ELSE Len(text))]

\* get_embedding: ValueError for a text that is blank once stripped,
\* RuntimeError when the provider fails, else the embedding of the stripped text
get_embedding(text, outcome) ==
    IF strip(text) = <<>> THEN [raised |-> Some("ValueError"), embedding |-> None]
    ELSE IF outcome = "raises"
         THEN [raised |-> Some("RuntimeError"), embedding |-> None]
         ELSE [raised |-> None, embedding |-> Some(strip(text))]

\* the loop of create_batch from chunk i on: an entry is appended for a chunk
\* whose embedding was returned, any exception is logged and the loop goes on
RECURSIVE create_batch_loop(_, _, _, _, _, _)
create_batch_loop(company_id, document_id, chunks, outcomes, i, batch) ==
    IF i > Len(chunks) THEN batch
    ELSE LET emb == get_embedding(chunks[i], outcomes[i])
         IN  create_batch_loop(company_id, document_id, chunks, outcomes, i + 1,
                IF emb.raised = None
                THEN Append(batch, [id |-> <<company_id, Len(batch) + 1>>,
                                    company_id |-> company_id,
                                    document_id |-> document_id,
                                    content |-> chunks[i],
                                    embedding |-> emb.embedding[1]])
                ELSE batch)

\* create_batch with the loop's try removed: the first chunk whose embedding
\* raises ends the call in the outer handlers
create_batch_aborts(company_id, file, document_id, outcomes) ==
    LET chunks == chunk_text(strip(file.raw), ChunkSize)
        failed == {i \in DOMAIN chunks : get_embedding(chunks[i], outcomes[i]).raised # None}
    IN  IF file.kind = "empty" THEN [raised |-> Some("ValueError"), batch |-> <<>>]
        ELSE IF file.kind = "corrupt" \/ chunks = <<>>
        THEN [raised |-> Some(HTTP_400_BAD_REQUEST), batch |-> <<>>]
        ELSE IF failed # {}
        THEN [raised |-> Some(HTTP_500_INTERNAL_SERVER_ERROR), batch |-> <<>>]
        ELSE [raised |-> None,
              batch |-> create_batch_loop(company_id, document_id, chunks, outcomes, 1, <<>>)]

\* create_batch: what it raises (ValueError for a missing argument, else an
\* HTTPException with its status code) or the batch it returns
create_batch(company_id, file, document_id, outcomes) ==
    IF file.kind = "empty" THEN [raised |-> Some("ValueError"), batch |-> <<>>]
    ELSE LET extracted == extract_text(file)
         IN  IF extracted.raised # None \/ extracted.text = <<>>
             THEN [raised |-> Some(HTTP_400_BAD_REQUEST), batch |-> <<>>]
             ELSE [raised |-> None,
                   batch |-> create_batch_loop(company_id, document_id,
                                 chunk_text(extracted.text, ChunkSize), outcomes, 1, <<>>)]

\* a call of create_batch with any file and any behaviour of the provider
BatchInit ==
    /\ nextCompanyId = MaxTenants + 1
    /\ companies = Tenants
    /\ adminPrompts = {}
    /\ fileMetadata = {}
    /\ index = {}
    /\ tasks = [t \in TaskIds |-> NoTask]
    /\ NoRequests
    /\ registrations = [r \in RegistrationIds |-> NoRegistration]
    /\ companyNames = {}
    /\ \E company_id \in Tenants, file \in BatchFiles,
          outcomes \in [1..MaxBatchChunks -> EmbeddingOutcomes] :
          batchCall = [pc |-> "called", company_id |-> company_id, file |-> file,
                       document_id |-> DocId(1, 1), outcomes |-> outcomes,
                       result |-> None]

CreateBatch ==
    /\ batchCall.pc = "called"
    /\ batchCall' = [batchCall EXCEPT
                        !.pc = "returned",
                        !.result = Some(create_batch(batchCall.company_id, batchCall.file,
                                                     batchCall.document_id,
                                                     batchCall.outcomes))]
    /\ UNCHANGED <<stores, tasks, chatVars, lastUpload, saves, deletes,
                   registrations, companyNames>>

BatchNext == CreateBatch

BatchSpec == BatchInit /\ [][BatchNext]_vars

\* the chunks of the call's document, and those whose embedding call succeeds
ChunksOfCall == chunk_text(strip(batchCall.file.raw), ChunkSize)

Embedded(i) == get_embedding(ChunksOfCall[i], batchCall.outcomes[i]).raised = None

EmbeddedChunks ==
    SelectSeq([i \in DOMAIN ChunksOfCall |-> i], LAMBDA i : Embedded(i))

\* C37: for a document with text, create_batch returns and does not raise, and
\* the batch has exactly one entry for each chunk whose embedding call
\* succeeded, in the order of the chunks, whichever other chunks failed.
C37_FailedChunkIsDropped ==
    (/\ batchCall.pc = "returned"
     /\ batchCall.file.kind = "valid" /\ ChunksOfCall # <<>>)
    => LET result == batchCall.result[1]
       IN  /\ result.raised = None
           /\ Len(result.batch) = Len(EmbeddedChunks)
           /\ \A j \in DOMAIN result.batch :
                 /\ result.batch[j].content = ChunksOfCall[EmbeddedChunks[j]]
                 /\ result.batch[j].document_id = batchCall.document_id
                 /\ result.batch[j].company_id = batchCall.company_id

\* C37 witness: the embedding call of one chunk failed and that of a later
\* chunk succeeded: the call returned, without the failed chunk and with the
\* later one as its last entry
C37_Witness ==
    /\ batchCall.pc = "returned"
    /\ batchCall.file.kind = "valid"
    /\ batchCall.result[1].raised = None
    /\ \E i, j \in DOMAIN ChunksOfCall :
          /\ i < j /\ j = Len(ChunksOfCall)
          /\ ~Embedded(i) /\ Embedded(j)
          /\ batchCall.outcomes[i] = "raises" /\ strip(ChunksOfCall[i]) # <<>>
          /\ Len(batchCall.result[1].batch) = Len(ChunksOfCall) - 1
          /\ batchCall.result[1].batch[Len(ChunksOfCall) - 1].content = ChunksOfCall[j]

\* ---------------------------------------------------- register_company
\* a company name is a string of letters of either case
Letters == {"a", "A", "b"}
\* RegisterRequest.name: Field(min_length=2, max_length=100)
min_length == 2
Names == UNION {[1..n -> Letters] : n \in min_length..MaxNameLen}

\* func.lower: the name with its upper-case letters replaced
func_lower(name) == [i \in DOMAIN name |-> IF name[i] = "A" THEN "a" ELSE name[i]]

\* select(Company).where(func.lower(Company.name) == func.lower(req.name))
existing_company(name) == {row \in companyNames : func_lower(row.name) = func_lower(name)}

\* the relational store, for the select and for the commit of create_company
RegisterOutcomes == {"ok", "raises"}

\* register_company up to the call of create_company: the select raises (500),
\* finds a company of that name (409), or finds none
register_company_select(r, name, outcome) ==
    /\ registrations[r].pc = "none"
    /\ registrations' = [registrations EXCEPT ![r] =
          IF outcome = "raises"
          THEN [pc |-> "done", name |-> name, status |-> HTTP_500_INTERNAL_SERVER_ERROR]
          ELSE IF existing_company(name) # {}
          THEN [pc |-> "done", name |-> name, status |-> HTTP_409_CONFLICT]
          ELSE [pc |-> "create", name |-> name, status |-> 0]]
    /\ UNCHANGED <<nextCompanyId, companies, companyNames>>

\* create_company and the response: the row is added and committed (201), or
\* the commit raises, create_company returns {"created": False} and reading
\* company.api_key raises (500)
create_company(r, outcome) ==
    /\ registrations[r].pc = "create"
    /\ IF outcome = "ok"
       THEN /\ companyNames' = companyNames \cup
                  {[id |-> nextCompanyId, name |-> registrations[r].name]}
            /\ companies' = companies \cup {nextCompanyId}
            /\ nextCompanyId' = nextCompanyId + 1
            /\ registrations' = [registrations EXCEPT ![r].pc = "done",
                                                      ![r].status = HTTP_201_CREATED]
       ELSE /\ registrations' = [registrations EXCEPT
                                    ![r].pc = "done",
                                    ![r].status = HTTP_500_INTERNAL_SERVER_ERROR]
            /\ UNCHANGED <<nextCompanyId, companies, companyNames>>

\* registrations arriving at a store that holds no company or one company
RegisterInit ==
    /\ \E rows \in {{}} \cup {{[id |-> 1, name |-> n]} : n \in Names} :
          /\ companyNames = rows
          /\ companies = {row.id : row \in rows}
          /\ nextCompanyId = Cardinality(rows) + 1
    /\ adminPrompts = {}
    /\ fileMetadata = {}
    /\ index = {}
    /\ tasks = [t \in TaskIds |-> NoTask]
    /\ NoRequests
    /\ batchCall = NoBatchCall
    /\ registrations = [r \in RegistrationIds |-> NoRegistration]

registerFrame == <<adminPrompts, fileMetadata, index, tasks, chatVars, lastUpload,
                   saves, deletes, batchCall>>

RegisterSelect ==
    /\ \E r \in RegistrationIds, name \in Names, outcome \in RegisterOutcomes :
          register_company_select(r, name, outcome)
    /\ UNCHANGED registerFrame

RegisterCreate ==
    /\ \E r \in RegistrationIds, outcome \in RegisterOutcomes : create_company(r, outcome)
    /\ UNCHANGED registerFrame

RegisterNext == RegisterSelect \/ RegisterCreate

RegisterSpec == RegisterInit /\ [][RegisterNext]_vars

\* C39: no two Company rows have names that are equal ignoring case, and of
\* two registrations with such names at most one is answered 201.
C39_NamesUniqueIgnoringCase ==
    /\ \A x, y \in companyNames : x # y => func_lower(x.name) # func_lower(y.name)
    /\ \A r, q \in RegistrationIds :
          (/\ r # q
           /\ registrations[r].pc = "done" /\ registrations[q].pc = "done"
           /\ func_lower(registrations[r].name) = func_lower(registrations[q].name))
          => ~(/\ registrations[r].status = HTTP_201_CREATED
               /\ registrations[q].status = HTTP_201_CREATED)

====
